---- MODULE Spec2Model ----
(***************************************************************************)
(* A model of extract_api_spec.py: endpoint discovery (find_urls), the     *)
(* windowed balanced-brace scan (json_blocks_near), the role classifier    *)
(* (pick_io, with its JSON normalizer) and the document loop of main.      *)
(*                                                                         *)
(* Texts are sequences of one-character strings.  Offsets are Python's     *)
(* 0-based offsets: character k of s is s[k + 1].                          *)
(***************************************************************************)
EXTENDS Integers, Sequences, FiniteSets, TLC

VARIABLES
    docs,        \* SPEC_DIR: file name -> text that read_pdf_text returns for it
    todo,        \* the file names main's document loop has still to visit
    rows,        \* main: rows
    idx,         \* main: idx
    pdf,         \* main: the loop variable pdf (its name)
    text,        \* main: text; json_blocks_near: text
    urls,        \* main: urls
    k,           \* main: position of the inner loop in urls (1-based)
    m,           \* main: m.start(), or -1 when m is None
    center,      \* json_blocks_near: center
    radius,      \* json_blocks_near: radius
    max_blocks,  \* json_blocks_near: max_blocks
    span,        \* json_blocks_near: span
    out,         \* json_blocks_near: out; main: blocks
    i,           \* json_blocks_near: i
    sel,         \* pick_io: the places in blocks of inp and out (0: ""), lines 89-96
    io,          \* main: (inp, out) as returned by pick_io
    pc           \* the position of the program

vars == <<docs, todo, rows, idx, pdf, text, urls, k, m, center, radius,
          max_blocks, span, out, i, sel, io, pc>>

mainVars == <<docs, todo, rows, idx, pdf, text, urls, k, m>>
scanVars == <<center, radius, max_blocks, span, out, i>>

(***************************************************************************)
(* Strings                                                                 *)
(***************************************************************************)
Min(S) == CHOOSE x \in S : \A y \in S : x <= y

\* s[a:b] for 0 <= a, b
Slice(s, a, b) ==
    LET hi == IF b > Len(s) THEN Len(s) ELSE b
    IN  IF a >= hi THEN <<>> ELSE SubSeq(s, a + 1, hi)

IsSpace(c) == c \in {" ", "\n", "\t", "\r"}

\* str.strip()
Strip(s) ==
    IF \A n \in 1..Len(s) : IsSpace(s[n]) THEN <<>>
    ELSE LET first == CHOOSE n \in 1..Len(s) :
                          ~IsSpace(s[n]) /\ \A q \in 1..(n - 1) : IsSpace(s[q])
             last  == CHOOSE n \in 1..Len(s) :
                          ~IsSpace(s[n]) /\ \A q \in (n + 1)..Len(s) : IsSpace(s[q])
         IN  SubSeq(s, first, last)

\* sub occurs in s at offset n
OccursAt(s, sub, n) ==
    /\ n >= 0
    /\ n + Len(sub) <= Len(s)
    /\ \A q \in 1..Len(sub) : s[n + q] = sub[q]

\* s.find(sub, from): the first offset >= from where sub occurs, or -1
Find(s, sub, from) ==
    LET hits == {n \in from..(Len(s) - Len(sub)) : OccursAt(s, sub, n)}
    IN  IF hits = {} THEN -1 ELSE Min(hits)

RECURSIVE Flatten(_)
Flatten(ss) == IF ss = <<>> THEN <<>> ELSE Head(ss) \o Flatten(Tail(ss))

Rep(s, n) == Flatten([q \in 1..n |-> s])

\* all sequences over S of length at most n
SeqsUpTo(S, n) == UNION {[1..len -> S] : len \in 0..n}

(***************************************************************************)
(* read_pdf_text                                                           *)
(***************************************************************************)
\* the full-width characters of lines 35-37 and what replaces them
FullWidth == <<"U+FF1A", "U+FF08", "U+FF09", "U+FF0E", "U+FF0D">>
HalfWidth == <<":", "(", ")", ".", "-">>

\* lines 35-37
Replace(t) ==
    [n \in 1..Len(t) |->
        IF \E q \in 1..Len(FullWidth) : FullWidth[q] = t[n]
        THEN HalfWidth[CHOOSE q \in 1..Len(FullWidth) : FullWidth[q] = t[n]]
        ELSE t[n]]

\* "\n".join(lines)
RECURSIVE Join(_)
Join(lines) ==
    IF lines = <<>> THEN <<>>
    ELSE IF Len(lines) = 1 THEN lines[1]
    ELSE lines[1] \o <<"\n">> \o Join(Tail(lines))

\* lines 30-38: the stripped text of every page that has any
RECURSIVE PageLines(_)
PageLines(pages) ==
    IF pages = <<>> THEN <<>>
    ELSE IF Head(pages) = <<>> THEN PageLines(Tail(pages))
    ELSE <<Strip(Replace(Head(pages)))>> \o PageLines(Tail(pages))

\* lines 28-39, of the pages' extracted texts
read_pdf_text(pages) == Join(PageLines(pages))

(***************************************************************************)
(* find_urls                                                               *)
(***************************************************************************)
POST == <<"P", "O", "S", "T">>

\* the first offset >= from of t that holds a character in (want) or out of
\* (~want) the whitespace class, Len(t) when there is none
RunEnd(t, from, want) ==
    IF \A n \in from..(Len(t) - 1) : IsSpace(t[n + 1]) # want THEN Len(t)
    ELSE CHOOSE n \in from..(Len(t) - 1) :
             IsSpace(t[n + 1]) = want
                 /\ \A q \in from..(n - 1) : IsSpace(t[q + 1]) # want

\* POST\s+(/\S+) matched at offset n: group 1 spans [ps, pe)
MatchAt(t, n) ==
    LET ps == RunEnd(t, n + 4, FALSE)
        pe == RunEnd(t, ps + 1, TRUE)
    IN  IF /\ OccursAt(t, POST, n)
           /\ ps > n + 4
           /\ ps < Len(t)
           /\ t[ps + 1] = "/"
           /\ pe > ps + 1
        THEN [ok |-> TRUE, ps |-> ps, pe |-> pe]
        ELSE [ok |-> FALSE, ps |-> 0, pe |-> 0]

\* re.finditer: group 1 of every match, left to right from offset from, each
\* search resuming where the match before it ended
RECURSIVE FindIter(_, _)
FindIter(t, from) ==
    IF \A n \in from..(Len(t) - 1) : ~MatchAt(t, n).ok THEN <<>>
    ELSE LET n == CHOOSE n \in from..(Len(t) - 1) :
                      MatchAt(t, n).ok /\ \A q \in from..(n - 1) : ~MatchAt(t, q).ok
             mt == MatchAt(t, n)
         IN  <<Slice(t, mt.ps, mt.pe)>> \o FindIter(t, mt.pe)

\* Unseen without the test: every match is new
Unseen_Always(u, seen) == TRUE

\* line 48
Unseen(u, seen) == u \notin seen

\* lines 45-51: the loop over the matches ms from the n-th on
RECURSIVE UrlLoop(_, _, _, _)
UrlLoop(ms, n, found, seen) ==
    IF n > Len(ms) THEN found
    ELSE IF Unseen(ms[n], seen)
    THEN UrlLoop(ms, n + 1, Append(found, ms[n]), seen \cup {ms[n]})
    ELSE UrlLoop(ms, n + 1, found, seen)

\* lines 43-51
find_urls(t) == UrlLoop(FindIter(t, 0), 1, <<>>, {})

(***************************************************************************)
(* json_blocks_near                                                        *)
(***************************************************************************)
radius_default == 30000
max_blocks_default == 12
MinLen == 50

\* the first offset >= j of sp that holds a brace, Len(sp) when there is none
NextBrace(sp, j) ==
    IF \A n \in j..(Len(sp) - 1) : sp[n + 1] \notin {"{", "}"} THEN Len(sp)
    ELSE CHOOSE n \in j..(Len(sp) - 1) :
             sp[n + 1] \in {"{", "}"}
                 /\ \A q \in j..(n - 1) : sp[q + 1] \notin {"{", "}"}

\* ForLoop without the depth counter: the block closes at the first "}"
ForLoop_NoDepth(sp, j, depth) ==
    IF \A n \in j..(Len(sp) - 1) : sp[n + 1] # "}" THEN -1
    ELSE CHOOSE n \in j..(Len(sp) - 1) :
             sp[n + 1] = "}" /\ \A q \in j..(n - 1) : sp[q + 1] # "}"

\* The inner for loop (lines 64-74) from offset j with the depth so far: the
\* offset of the "}" at which the depth returns to zero, or -1 when the loop
\* runs off the end of span (the for's else branch).  The characters that are
\* no brace change nothing (lines 66-67), so the loop is taken from brace to
\* brace.
RECURSIVE ForLoop(_, _, _)
ForLoop(sp, j, depth) ==
    CHOOSE r \in { IF at >= Len(sp) THEN -1
                   ELSE IF sp[at + 1] = "{" THEN ForLoop(sp, at + 1, depth + 1)
                   ELSE IF depth - 1 = 0 THEN at
                   ELSE ForLoop(sp, at + 1, depth - 1)
                   : at \in {NextBrace(sp, j)} } : TRUE

\* KeepBlock with >= for >
KeepBlock_AtLeast(raw) == Len(raw) >= MinLen

\* line 71
KeepBlock(raw) == Len(raw) > MinLen

\* Resume at the closing brace instead of one past it
Resume_AtClose(j) == j

\* line 73
Resume(j) == j + 1

\* line 60
LoopCond(o, mb) == Len(o) < mb

\* lines 57-59
Window ==
    /\ pc = "call_scan"
    /\ \E s \in {IF center - radius > 0 THEN center - radius ELSE 0} :
       \E e \in {IF center + radius < Len(text) THEN center + radius ELSE Len(text)} :
           span' = Slice(text, s, e)
    /\ out' = <<>>
    /\ i' = 0
    /\ pc' = "scan"
    /\ UNCHANGED <<mainVars, center, radius, max_blocks, sel, io>>

\* line 60: the while condition fails, line 77 returns
ScanStopMax ==
    /\ pc = "scan"
    /\ ~LoopCond(out, max_blocks)
    /\ pc' = "pick"
    /\ UNCHANGED <<mainVars, scanVars, sel, io>>

\* lines 61-62: no "{" is left, break
ScanNoBrace ==
    /\ pc = "scan"
    /\ LoopCond(out, max_blocks)
    /\ Find(span, <<"{">>, i) = -1
    /\ pc' = "pick"
    /\ UNCHANGED <<mainVars, scanVars, sel, io>>

\* lines 63-74: the block opened at p closes at j
ScanClose ==
    /\ pc = "scan"
    /\ LoopCond(out, max_blocks)
    /\ \E p \in {Find(span, <<"{">>, i)} :
           /\ p # -1
           /\ \E j \in {ForLoop(span, p, 0)} :
                  /\ j # -1
                  /\ \E raw \in {Strip(Slice(span, p, j + 1))} :
                         out' = IF KeepBlock(raw) THEN Append(out, raw) ELSE out
                  /\ i' = Resume(j)
    /\ UNCHANGED <<mainVars, center, radius, max_blocks, span, sel, io, pc>>

\* lines 63-76: the block opened at p never closes, the for's else breaks
ScanUnterminated ==
    /\ pc = "scan"
    /\ LoopCond(out, max_blocks)
    /\ \E p \in {Find(span, <<"{">>, i)} :
           /\ p # -1
           /\ ForLoop(span, p, 0) = -1
    /\ pc' = "pick"
    /\ UNCHANGED <<mainVars, scanVars, sel, io>>

ScanNext == Window \/ ScanStopMax \/ ScanNoBrace \/ ScanClose \/ ScanUnterminated

(***************************************************************************)
(* norm: json.dumps(json.loads(s), ensure_ascii=False, indent=2), or s     *)
(* itself when json.loads raises.  The JSON read here is objects, strings  *)
(* without escapes, unsigned integers and null/true/false; anything else   *)
(* is a parse failure.                                                     *)
(***************************************************************************)
Digits == {"0", "1", "2", "3", "4", "5", "6", "7", "8", "9"}

Fail == [ok |-> FALSE, val |-> <<>>, pos |-> 0]

\* the first position >= p of s that holds no JSON whitespace
SkipWs(s, p) ==
    IF \A n \in p..Len(s) : IsSpace(s[n]) THEN Len(s) + 1
    ELSE CHOOSE n \in p..Len(s) :
             ~IsSpace(s[n]) /\ \A q \in p..(n - 1) : IsSpace(s[q])

StartsWith(s, p, w) == OccursAt(s, w, p - 1)

\* a string literal opening at position p
ParseString(s, p) ==
    IF p > Len(s) \/ s[p] # "\"" THEN Fail
    ELSE IF \A n \in (p + 1)..Len(s) : s[n] # "\"" THEN Fail
    ELSE LET q == CHOOSE n \in (p + 1)..Len(s) :
                      s[n] = "\"" /\ \A r \in (p + 1)..(n - 1) : s[r] # "\""
             body == SubSeq(s, p + 1, q - 1)
         IN  IF \E n \in 1..Len(body) : body[n] \in {"\\", "\n", "\t", "\r"}
             THEN Fail
             ELSE [ok |-> TRUE, val |-> [t |-> "str", v |-> body], pos |-> q + 1]

\* an integer literal opening at position p
ParseNumber(s, p) ==
    LET q == IF \A n \in p..Len(s) : s[n] \in Digits THEN Len(s) + 1
             ELSE CHOOSE n \in p..Len(s) :
                      s[n] \notin Digits /\ \A r \in p..(n - 1) : s[r] \in Digits
        body == SubSeq(s, p, q - 1)
    IN  IF Len(body) > 1 /\ body[1] = "0" THEN Fail
        ELSE [ok |-> TRUE, val |-> [t |-> "num", v |-> body], pos |-> q]

\* a dict keeps a repeated key at its first place, with its last value
ObjPut(members, key, val) ==
    IF \E n \in 1..Len(members) : members[n].k = key
    THEN [n \in 1..Len(members) |->
             IF members[n].k = key THEN [k |-> key, v |-> val] ELSE members[n]]
    ELSE Append(members, [k |-> key, v |-> val])

RECURSIVE ParseValue(_, _)
RECURSIVE ParseMembers(_, _, _)

\* the members of an object from position p (whitespace skipped) on: a key,
\* a colon, a value, then a comma and more members or the closing brace
ParseMembers(s, p, members) ==
    LET key == ParseString(s, p)
    IN  IF ~key.ok THEN Fail
        ELSE LET c == SkipWs(s, key.pos)
             IN  IF c > Len(s) \/ s[c] # ":" THEN Fail
                 ELSE LET val == ParseValue(s, SkipWs(s, c + 1))
                      IN  IF ~val.ok THEN Fail
                          ELSE LET e == SkipWs(s, val.pos)
                                   now == ObjPut(members, key.val.v, val.val)
                               IN  IF e > Len(s) THEN Fail
                                   ELSE IF s[e] = "}"
                                   THEN [ok |-> TRUE,
                                         val |-> [t |-> "obj", v |-> now],
                                         pos |-> e + 1]
                                   ELSE IF s[e] = ","
                                   THEN ParseMembers(s, SkipWs(s, e + 1), now)
                                   ELSE Fail

\* the JSON value opening at position p (whitespace skipped)
ParseValue(s, p) ==
    IF p > Len(s) THEN Fail
    ELSE IF s[p] = "{"
    THEN LET q == SkipWs(s, p + 1)
         IN  IF q <= Len(s) /\ s[q] = "}"
             THEN [ok |-> TRUE, val |-> [t |-> "obj", v |-> <<>>], pos |-> q + 1]
             ELSE ParseMembers(s, q, <<>>)
    ELSE IF s[p] = "\"" THEN ParseString(s, p)
    ELSE IF s[p] \in Digits THEN ParseNumber(s, p)
    ELSE IF StartsWith(s, p, <<"n", "u", "l", "l">>)
    THEN [ok |-> TRUE, val |-> [t |-> "lit", v |-> <<"n", "u", "l", "l">>],
          pos |-> p + 4]
    ELSE IF StartsWith(s, p, <<"t", "r", "u", "e">>)
    THEN [ok |-> TRUE, val |-> [t |-> "lit", v |-> <<"t", "r", "u", "e">>],
          pos |-> p + 4]
    ELSE IF StartsWith(s, p, <<"f", "a", "l", "s", "e">>)
    THEN [ok |-> TRUE, val |-> [t |-> "lit", v |-> <<"f", "a", "l", "s", "e">>],
          pos |-> p + 5]
    ELSE Fail

\* json.loads(s)
Loads(s) ==
    LET r == ParseValue(s, SkipWs(s, 1))
    IN  IF r.ok /\ SkipWs(s, r.pos) > Len(s) THEN r ELSE Fail

Indent(level) == [q \in 1..(2 * level) |-> " "]

RECURSIVE Dumps(_, _)
RECURSIVE DumpMembers(_, _, _)

DumpMembers(members, n, level) ==
    Indent(level) \o <<"\"">> \o members[n].k \o <<"\"", ":", " ">>
        \o Dumps(members[n].v, level)
        \o (IF n = Len(members) THEN <<>>
            ELSE <<",", "\n">> \o DumpMembers(members, n + 1, level))

\* json.dumps(v, ensure_ascii=False, indent=2) at nesting depth level
Dumps(v, level) ==
    IF v.t = "obj"
    THEN IF v.v = <<>> THEN <<"{", "}">>
         ELSE <<"{", "\n">> \o DumpMembers(v.v, 1, level + 1)
                  \o <<"\n">> \o Indent(level) \o <<"}">>
    ELSE IF v.t = "str" THEN <<"\"">> \o v.v \o <<"\"">>
    ELSE v.v

\* norm that returns its argument as it is
norm_Identity(s) == s

\* lines 98-100
norm(s) == IF Loads(s).ok THEN Dumps(Loads(s).val, 0) ELSE s

(***************************************************************************)
(* pick_io                                                                 *)
(***************************************************************************)
RespKeywords ==
    {<<"m", "s", "g", "r", "s", "h", "d", "r">>, <<"r", "s", "p", "c", "o",
    "d", "e">>, <<"r", "e", "s", "p", "o", "n", "s", "e", "j", "s", "o",
    "n">>, <<"e", "r", "r", "o", "r">>}

ReqKeywords ==
    {<<"s", "e", "c", "u", "r", "i", "t", "y", "c", "o", "n", "t", "e", "x",
    "t">>, <<"c", "u", "s", "t", "i", "d">>, <<"u", "s", "e", "r", "i", "d">>,
    <<"d", "a", "t", "a">>, <<"b", "o", "d", "y">>}

UpperChars ==
    <<"A", "B", "C", "D", "E", "F", "G", "H", "I", "J", "K", "L", "M", "N",
    "O", "P", "Q", "R", "S", "T", "U", "V", "W", "X", "Y", "Z">>

LowerChars ==
    <<"a", "b", "c", "d", "e", "f", "g", "h", "i", "j", "k", "l", "m", "n",
    "o", "p", "q", "r", "s", "t", "u", "v", "w", "x", "y", "z">>

\* str.lower()
Lower(s) ==
    [n \in 1..Len(s) |->
        IF \E q \in 1..26 : UpperChars[q] = s[n]
        THEN LowerChars[CHOOSE q \in 1..26 : UpperChars[q] = s[n]]
        ELSE s[n]]

\* lines 82-84
is_resp(b) ==
    \E t \in {Lower(b)} : \E kw \in RespKeywords : Find(t, kw, 0) # -1

\* lines 85-87
is_req(b) ==
    /\ \E t \in {Lower(b)} : \E kw \in ReqKeywords : Find(t, kw, 0) # -1
    /\ ~is_resp(b)

\* next((b for b in blocks if ...), ""): the place of the first block among
\* those at the places in hits, 0 for the default ""
First(hits) == IF hits = {} THEN 0 ELSE Min(hits)

\* max(..., key=len) over the blocks at the places in among: the first of
\* the longest
Longest(blocks, among) ==
    CHOOSE n \in among :
        /\ \A q \in among : Len(blocks[q]) <= Len(blocks[n])
        /\ \A q \in among : q < n => Len(blocks[q]) < Len(blocks[n])

\* Rest without the identity test: every block, the one chosen as inp too
Rest_All(blocks, inp) == 1..Len(blocks)

\* line 95: the blocks that are not the object inp.  The blocks of a list that
\* json_blocks_near returns are distinct objects, one per place.
Rest(blocks, inp) == {n \in 1..Len(blocks) : n # inp}

\* lines 89-96: the places in blocks of inp and out, 0 for ""
Select(blocks) ==
    LET inp0 == First({n \in 1..Len(blocks) : is_req(blocks[n])})
        out0 == First({n \in 1..Len(blocks) : is_resp(blocks[n])})
        inp1 == IF inp0 = 0 /\ blocks # <<>>
                THEN Longest(blocks, 1..Len(blocks)) ELSE inp0
        rest == Rest(blocks, inp1)
        out1 == IF out0 = 0
                THEN IF rest # {} THEN Longest(blocks, rest) ELSE 0
                ELSE out0
    IN  [inp |-> inp1, out |-> out1]

\* the block at place n, "" for place 0
BlockAt(blocks, n) == IF n = 0 THEN <<>> ELSE blocks[n]

\* lines 89-96
PickSelect ==
    /\ pc = "pick"
    /\ sel' = Select(out)
    /\ pc' = "norm"
    /\ UNCHANGED <<mainVars, scanVars, io>>

\* lines 98-102
PickNorm ==
    /\ pc = "norm"
    /\ io' = [inp |-> norm(BlockAt(out, sel.inp)), out |-> norm(BlockAt(out, sel.out))]
    /\ pc' = "append"
    /\ UNCHANGED <<mainVars, scanVars, sel>>

PickNext == PickSelect \/ PickNorm

(***************************************************************************)
(* main                                                                    *)
(***************************************************************************)
\* the characters of the file names, by code point
CodeOrder == <<".", "1", "B", "a", "b", "d", "f", "p">>
Code(c) == CHOOSE n \in 1..Len(CodeOrder) : CodeOrder[n] = c

\* a < b as Python orders two paths of one directory
LexLess(a, b) ==
    \E n \in 1..(Len(a) + 1) :
        /\ n <= Len(b) + 1
        /\ \A q \in 1..(n - 1) : a[q] = b[q]
        /\ \/ n = Len(a) + 1 /\ n <= Len(b)
           \/ n <= Len(a) /\ n <= Len(b) /\ Code(a[n]) < Code(b[n])

\* the names in the opposite order
RECURSIVE Sorted_Reverse(_)
Sorted_Reverse(names) ==
    IF names = {} THEN <<>>
    ELSE LET last == CHOOSE a \in names : \A b \in names \ {a} : LexLess(b, a)
         IN  <<last>> \o Sorted_Reverse(names \ {last})

\* line 112: sorted(...)
RECURSIVE Sorted(_)
Sorted(names) ==
    IF names = {} THEN <<>>
    ELSE LET least == CHOOSE a \in names : \A b \in names \ {a} : LexLess(a, b)
         IN  <<least>> \o Sorted(names \ {least})

\* IsBlank without the strip
IsBlank_NoStrip(t) == t = <<>>

\* line 114
IsBlank(t) == Strip(t) = <<>>

\* Search for the declaration "POST " \o url and not for url alone
Search_Declared(url, t) ==
    IF Find(t, POST \o <<" ">> \o url, 0) = -1 THEN -1
    ELSE Find(t, POST \o <<" ">> \o url, 0) + 5

\* line 122: m.start() of re.search(re.escape(url), text), -1 for None
Search(url, t) == Find(t, url, 0)

\* lines 115-116 and 125-133
Record(index, name, url, inp, outp) ==
    [Index |-> index, FileName |-> name, URL |-> url, Method |-> "POST",
     Input |-> inp, ResponseCode |-> "200", Output |-> outp]

\* lines 107-112: the output directory is emptied, the PDFs are listed in order
Start ==
    /\ pc = "start"
    /\ rows' = <<>>
    /\ idx' = 1
    /\ todo' = Sorted(DOMAIN docs)
    /\ pc' = "loop"
    /\ UNCHANGED <<docs, pdf, text, urls, k, m, scanVars, sel, io>>

\* lines 112-113
NextPdf ==
    /\ pc = "loop"
    /\ todo # <<>>
    /\ pdf' = Head(todo)
    /\ todo' = Tail(todo)
    /\ text' = read_pdf_text(docs[Head(todo)])
    /\ pc' = "doc"
    /\ UNCHANGED <<docs, rows, idx, urls, k, m, scanVars, sel, io>>

\* lines 114-118
Placeholder ==
    /\ pc = "doc"
    /\ IsBlank(text)
    /\ rows' = Append(rows, Record(idx, pdf, <<>>, <<>>, <<>>))
    /\ idx' = idx + 1
    /\ pc' = "loop"
    /\ UNCHANGED <<docs, todo, pdf, text, urls, k, m, scanVars, sel, io>>

\* lines 114, 120
Discover ==
    /\ pc = "doc"
    /\ ~IsBlank(text)
    /\ urls' = find_urls(text)
    /\ k' = 1
    /\ pc' = "urls"
    /\ UNCHANGED <<docs, todo, rows, idx, pdf, text, m, scanVars, sel, io>>

\* lines 121-123: the anchor, and the call of json_blocks_near when there is one
Anchor ==
    /\ pc = "urls"
    /\ k <= Len(urls)
    /\ \E at \in {Search(urls[k], text)} :
           /\ m' = at
           /\ IF at # -1
              THEN /\ center' = at
                   /\ radius' = radius_default
                   /\ max_blocks' = max_blocks_default
                   /\ pc' = "call_scan"
                   /\ UNCHANGED out
              ELSE /\ out' = <<>>
                   /\ pc' = "pick"
                   /\ UNCHANGED <<center, radius, max_blocks>>
    /\ UNCHANGED <<docs, todo, rows, idx, pdf, text, urls, k, span, i, sel, io>>

\* lines 125-134
AppendRow ==
    /\ pc = "append"
    /\ rows' = Append(rows, Record(idx, pdf, urls[k], io.inp, io.out))
    /\ idx' = idx + 1
    /\ k' = k + 1
    /\ pc' = "urls"
    /\ UNCHANGED <<docs, todo, pdf, text, urls, m, scanVars, sel, io>>

\* line 121: urls is used up
EndDoc ==
    /\ pc = "urls"
    /\ k > Len(urls)
    /\ pc' = "loop"
    /\ UNCHANGED <<mainVars, scanVars, sel, io>>

\* line 112: no PDF is left; lines 136-151 hand rows to the spreadsheet
Finish ==
    /\ pc = "loop"
    /\ todo = <<>>
    /\ pc' = "done"
    /\ UNCHANGED <<mainVars, scanVars, sel, io>>

Next ==
    \/ Start
    \/ NextPdf
    \/ Placeholder
    \/ Discover
    \/ Anchor
    \/ ScanNext
    \/ PickNext
    \/ AppendRow
    \/ EndDoc
    \/ Finish

(***************************************************************************)
(* json_blocks_near on its own: every text built of at most MaxPieces      *)
(* pieces, and one long text holding more blocks than max_blocks' default. *)
(***************************************************************************)
MaxPieces == 3

Pad(n) == [q \in 1..n |-> "x"]
Block(n) == <<"{">> \o Pad(n - 2) \o <<"}">>
Nested(n) == <<"{">> \o Block(n - 2) \o <<"}">>

\* {"a":{"b":1}}
Example == <<"{", "\"", "a", "\"", ":", "{", "\"", "b", "\"", ":", "1", "}", "}">>

ScanPieces == {<<"{">>, <<"}">>, <<"x">>, Block(MinLen), Nested(MinLen + 1), Example}

LongText == Rep(Block(MinLen + 1) \o <<" ">>, max_blocks_default + 1)

ScanTexts == {Flatten(ps) : ps \in SeqsUpTo(ScanPieces, MaxPieces)} \cup {LongText}

ScanInit ==
    /\ text \in ScanTexts
    /\ center \in {0, Len(text) \div 2, Len(text)}
    /\ radius \in {60, radius_default}
    /\ max_blocks \in {1, max_blocks_default}
    /\ span = <<>>
    /\ out = <<>>
    /\ i = 0
    /\ pc = "call_scan"
    /\ docs = <<>>
    /\ todo = <<>>
    /\ rows = <<>>
    /\ idx = 1
    /\ pdf = <<>>
    /\ urls = <<>>
    /\ k = 1
    /\ m = -1
    /\ sel = [inp |-> 0, out |-> 0]
    /\ io = [inp |-> <<>>, out |-> <<>>]

ScanSpec == ScanInit /\ [][ScanNext]_vars

ScanLive == ScanInit /\ [][ScanNext]_vars /\ WF_vars(ScanNext)

(***************************************************************************)
(* pick_io on its own: every list of at most MaxBlocks candidate blocks,   *)
(* each one a block json_blocks_near can return (longer than 50            *)
(* characters).                                                            *)
(***************************************************************************)
MaxBlocks == 3

\* {"custId":"123","data":{},"pad":"  (33 characters)
ReqHead ==
    <<"{", "\"", "c", "u", "s", "t", "I", "d", "\"", ":", "\"", "1", "2", "3",
    "\"", ",", "\"", "d", "a", "t", "a", "\"", ":", "{", "}", ",", "\"", "p",
    "a", "d", "\"", ":", "\"">>

\* {"rspCode":"0","error":null,"pad":"  (35 characters)
RespHead ==
    <<"{", "\"", "r", "s", "p", "C", "o", "d", "e", "\"", ":", "\"", "0",
    "\"", ",", "\"", "e", "r", "r", "o", "r", "\"", ":", "n", "u", "l", "l",
    ",", "\"", "p", "a", "d", "\"", ":", "\"">>

\* {"custId":"1","rspCode":"0","pad":"  (35 characters)
BothHead ==
    <<"{", "\"", "c", "u", "s", "t", "I", "d", "\"", ":", "\"", "1", "\"",
    ",", "\"", "r", "s", "p", "C", "o", "d", "e", "\"", ":", "\"", "0", "\"",
    ",", "\"", "p", "a", "d", "\"", ":", "\"">>

\* the JSON object that opens with head, padded to n characters in all
Padded(head, n) == head \o Pad(n - Len(head) - 2) \o <<"\"", "}">>

ReqBlock == Padded(ReqHead, MinLen + 3)
RespBlock == Padded(RespHead, MinLen + 5)
BothBlock == Padded(BothHead, MinLen + 4)

PickBlocks == {ReqBlock, RespBlock, BothBlock, Block(MinLen + 1), Block(MinLen + 6)}

PickInit ==
    /\ out \in SeqsUpTo(PickBlocks, MaxBlocks)
    /\ pc = "pick"
    /\ text = <<>>
    /\ center = 0
    /\ radius = radius_default
    /\ max_blocks = max_blocks_default
    /\ span = <<>>
    /\ i = 0
    /\ docs = <<>>
    /\ todo = <<>>
    /\ rows = <<>>
    /\ idx = 1
    /\ pdf = <<>>
    /\ urls = <<>>
    /\ k = 1
    /\ m = -1
    /\ sel = [inp |-> 0, out |-> 0]
    /\ io = [inp |-> <<>>, out |-> <<>>]

PickSpec == PickInit /\ [][PickNext]_vars

(***************************************************************************)
(* main: SPEC_DIR holds either up to MaxFiles PDFs, each one of a few      *)
(* small documents, or one PDF whose single page is built of at most       *)
(* MaxTokens tokens or is one of a few documents holding JSON objects.     *)
(***************************************************************************)
MaxFiles == 2
MaxTokens == 3

\* a.pdf, B.pdf, a1.pdf
FileNames ==
    <<<<"a", ".", "p", "d", "f">>, <<"B", ".", "p", "d", "f">>, <<"a", "1",
    ".", "p", "d", "f">>>>

PdfNames == {FileNames[n] : n \in 1..MaxFiles}

DeclA == <<"P", "O", "S", "T", " ", "/", "a", " ">>
DeclB == <<"P", "O", "S", "T", " ", "/", "b", " ">>
DeclAB == <<"P", "O", "S", "T", " ", "/", "a", "b", " ">>
BareA == <<"/", "a", " ">>
Word == <<"x", " ">>
PostNl == <<"P", "O", "S", "T", "\n">>

UrlTokens == {DeclA, DeclB, DeclAB, BareA, Word, PostNl}

UrlPages == {Flatten(ts) : ts \in SeqsUpTo(UrlTokens, MaxTokens)}

\* {"custId":"123","data":{}}  (26 characters)
ShortReq ==
    <<"{", "\"", "c", "u", "s", "t", "I", "d", "\"", ":", "\"", "1", "2", "3",
    "\"", ",", "\"", "d", "a", "t", "a", "\"", ":", "{", "}", "}">>

\* {"rspCode":"0","error":null}  (28 characters)
ShortResp ==
    <<"{", "\"", "r", "s", "p", "C", "o", "d", "e", "\"", ":", "\"", "0",
    "\"", ",", "\"", "e", "r", "r", "o", "r", "\"", ":", "n", "u", "l", "l",
    "}">>

PayDecl ==
    <<"P", "O", "S", "T", " ", "/", "v", "1", "/", "p", "a", "y", " ">>

PayUrl ==
    <<"/", "v", "1", "/", "p", "a", "y">>

Dots ==
    <<" ", ".", ".", ".", " ">>

\* POST /v1/pay <request object> ... <response object>
EndToEnd(req, resp) == PayDecl \o req \o Dots \o resp

EndToEndCases ==
    {[req |-> rq, resp |-> rs] : rq \in {ShortReq, ReqBlock}, rs \in {ShortResp, RespBlock}}

\* the pages of the documents that hold JSON objects
ObjectDocs ==
    {<<EndToEnd(c.req, c.resp)>> : c \in EndToEndCases}
        \cup {<<DeclA \o RespBlock>>,
              <<DeclA \o <<"{">> \o ReqBlock>>,
              <<DeclA \o LongText>>}

\* the pages of the small documents: no page; two pages of white space; no
\* endpoint; two endpoints on two pages, with full-width punctuation
SmallDocs ==
    {<<>>,
     <<<<" ">>, <<" ">>>>,
     <<Word \o Word>>,
     <<DeclAB \o <<"U+FF08">> \o BareA, DeclA \o Word \o DeclAB>>}

Init ==
    /\ \/ \E names \in SUBSET PdfNames : docs \in [names -> SmallDocs]
       \/ \E page \in UrlPages : docs = [n \in {FileNames[1]} |-> <<page>>]
       \/ \E pages \in ObjectDocs : docs = [n \in {FileNames[1]} |-> pages]
    /\ pc = "start"
    /\ todo = <<>>
    /\ rows = <<>>
    /\ idx = 1
    /\ pdf = <<>>
    /\ text = <<>>
    /\ urls = <<>>
    /\ k = 1
    /\ m = -1
    /\ center = 0
    /\ radius = radius_default
    /\ max_blocks = max_blocks_default
    /\ span = <<>>
    /\ out = <<>>
    /\ i = 0
    /\ sel = [inp |-> 0, out |-> 0]
    /\ io = [inp |-> <<>>, out |-> <<>>]

Spec == Init /\ [][Next]_vars



(***************************************************************************)
(* Reference notions for the claims about json_blocks_near                 *)
(***************************************************************************)
Braces(sp, a, b, c) == Cardinality({n \in a..b : sp[n + 1] = c})

\* the first "{" of sp at offset from or later, or -1
NextOpen(sp, from) ==
    IF \A n \in from..(Len(sp) - 1) : sp[n + 1] # "{" THEN -1
    ELSE CHOOSE n \in from..(Len(sp) - 1) :
             sp[n + 1] = "{" /\ \A q \in from..(n - 1) : sp[q + 1] # "{"

\* j closes the brace opened at p: as many "}" as "{" in sp[p..j]
ClosesAt(sp, p, j) ==
    /\ sp[j + 1] = "}"
    /\ Braces(sp, p, j, "{") = Braces(sp, p, j, "}")

\* the "}" matching the "{" at offset p, or -1 when sp ends first
MatchOf(sp, p) ==
    IF \A j \in p..(Len(sp) - 1) : ~ClosesAt(sp, p, j) THEN -1
    ELSE CHOOSE j \in p..(Len(sp) - 1) :
             ClosesAt(sp, p, j) /\ \A q \in p..(j - 1) : ~ClosesAt(sp, p, q)

\* the whole text lies inside the window
WindowCoversText == center - radius <= 0 /\ center + radius >= Len(text)

\* text is a brace-free prefix, one balanced object holding nested braces, and
\* a brace-free suffix
OneNestedObject(t) ==
    LET p == NextOpen(t, 0)
    IN  /\ p # -1
        /\ MatchOf(t, p) # -1
        /\ \E n \in (p + 1)..(MatchOf(t, p) - 1) : t[n + 1] = "{"
        /\ \A n \in (MatchOf(t, p) + 1)..(Len(t) - 1) : t[n + 1] \notin {"{", "}"}

OuterObject(t) == Slice(t, NextOpen(t, 0), MatchOf(t, NextOpen(t, 0)) + 1)

\* C4 as stated: for a brace-free prefix, one balanced object with nested
\* braces and a brace-free suffix, all inside the window, json_blocks_near
\* returns exactly one candidate, the whole outer object.
C4_OneCandidateAlways ==
    (pc = "pick" /\ WindowCoversText /\ OneNestedObject(text))
        => out = <<OuterObject(text)>>

\* C4 as amended: for such a text json_blocks_near returns the whole outer
\* object as its only candidate when the object is longer than 50 characters,
\* and no candidate at all when it is not; it never returns an inner object.
C4_OneCandidateIfLong ==
    (pc = "pick" /\ WindowCoversText /\ OneNestedObject(text))
        => out = IF Len(OuterObject(text)) > MinLen
                 THEN <<OuterObject(text)>> ELSE <<>>

C4_Witness ==
    /\ pc = "pick"
    /\ WindowCoversText
    /\ text = <<"x">> \o Nested(MinLen + 1) \o <<"x">>
    /\ out = <<Nested(MinLen + 1)>>

\* the block the scan is about to close from its resume position i: the
\* offsets of its "{" and of the matching "}", or -1
OpenNow == NextOpen(span, i)
CloseNow == IF OpenNow = -1 THEN -1 ELSE MatchOf(span, OpenNow)
BlockNow == Strip(Slice(span, OpenNow, CloseNow + 1))
Scanning == pc = "scan" /\ Len(out) < max_blocks

C7_Held ==
    /\ \A n \in 1..Len(out) : Len(Strip(out[n])) > MinLen
    /\ Len(out) <= max_blocks

C7_Step ==
    (Scanning /\ CloseNow # -1) =>
        /\ Len(BlockNow) >= MinLen + 1 => out' = Append(out, BlockNow)
        /\ Len(BlockNow) <= MinLen => (out' = out /\ pc' = "scan")

\* C7: at every point of the scan every block held in out is longer than 50
\* characters after trimming and out holds at most max_blocks blocks; a block
\* of 51 characters or more that closes while out holds fewer than max_blocks
\* blocks is appended; a shorter block leaves out as it is and the scan goes on.
C7_MinLenFilter == C7_Held /\ [][C7_Step /\ C7_Held']_vars

C7_Witness ==
    /\ pc = "scan"
    /\ span = Block(MinLen) \o Nested(MinLen + 1)
    /\ i = Len(span)
    /\ out = <<Nested(MinLen + 1)>>

C9_Step ==
    /\ (Scanning /\ CloseNow # -1) =>
           /\ i' = CloseNow + 1
           /\ i' > i
           /\ span[i'] = "}"
    /\ (Scanning /\ OpenNow # -1 /\ CloseNow = -1) =>
           /\ pc' = "pick"
           /\ out' = out

\* C9: the scan terminates; each time a block closes the resume position i
\* moves forward to one past the closing brace; an opening brace with no
\* matching closing brace in the window ends the scan at once with out as it was.
C9_Terminates == [][C9_Step]_vars /\ <>(pc = "pick")

C9_Witness ==
    /\ pc = "pick"
    /\ span = Nested(MinLen + 1) \o <<"{">> \o Nested(MinLen + 1)
    /\ LoopCond(out, max_blocks)
    /\ out = <<Nested(MinLen + 1)>>
    /\ i = MinLen + 1

(***************************************************************************)
(* Reference notions for the claims about pick_io: what each candidate     *)
(* block of PickBlocks holds, by its construction                          *)
(***************************************************************************)
HasRespKeyword(b) == b \in {RespBlock, BothBlock}
HasReqKeyword(b) == b \in {ReqBlock, BothBlock}

Selected == pc \in {"norm", "append"}

\* C3: when pick_io selects both an input and an output they are blocks at
\* two different places of the list, whichever rule selected them, and a block
\* holding both a response keyword and a request keyword is never the input.
C3_DistinctSelections ==
    Selected =>
        /\ (sel.inp # 0 /\ sel.out # 0) => sel.inp # sel.out
        /\ \A n \in 1..Len(out) :
               (HasRespKeyword(out[n]) /\ HasReqKeyword(out[n])) => sel.inp # n

\* the first of the longest blocks among those at the places in among
FirstLongest(blocks, among) ==
    Min({n \in among : \A q \in among : Len(blocks[q]) <= Len(blocks[n])})

RefInput(blocks) ==
    LET req == {n \in 1..Len(blocks) :
                   HasReqKeyword(blocks[n]) /\ ~HasRespKeyword(blocks[n])}
    IN  IF req # {} THEN Min(req)
        ELSE IF blocks # <<>> THEN FirstLongest(blocks, 1..Len(blocks))
        ELSE 0

RefOutput(blocks) ==
    LET resp == {n \in 1..Len(blocks) : HasRespKeyword(blocks[n])}
        others == (1..Len(blocks)) \ {RefInput(blocks)}
    IN  IF resp # {} THEN Min(resp)
        ELSE IF others # {} THEN FirstLongest(blocks, others)
        ELSE 0

\* C8: before normalization the input is the first block that is request-like
\* and not response-like, else the first of the longest blocks, else empty; the
\* output is the first response-like block, else the first of the longest
\* blocks other than the input, else empty.
C8_SelectionReference ==
    /\ Selected => sel = [inp |-> RefInput(out), out |-> RefOutput(out)]
    /\ (pc = "append" /\ out = <<>>) => io = [inp |-> <<>>, out |-> <<>>]

C8_Witness ==
    /\ pc = "norm"
    /\ out = <<Block(MinLen + 1)>>
    /\ sel = [inp |-> 1, out |-> 0]

(***************************************************************************)
(* Reference notions for the claims about main and find_urls               *)
(***************************************************************************)
\* the rows of the document named f, in the order of rows
RowsOf(f) == SelectSeq(rows, LAMBDA r : r.FileName = f)

TextOf(f) == read_pdf_text(docs[f])

AllSpace(t) == \A n \in 1..Len(t) : IsSpace(t[n])

IsPlaceholder(r) == r.URL = <<>> /\ r.Input = <<>> /\ r.Output = <<>>

\* C1 as stated: when the document loop has ended every document has
\* contributed at least one record: exactly one placeholder record when its
\* text is empty, exactly one record per discovered endpoint when it is not.
C1_AtLeastOneRecord ==
    pc = "done" =>
        \A f \in DOMAIN docs :
            /\ Len(RowsOf(f)) >= 1
            /\ AllSpace(TextOf(f)) =>
                   (Len(RowsOf(f)) = 1 /\ IsPlaceholder(RowsOf(f)[1]))
            /\ ~AllSpace(TextOf(f)) =>
                   [n \in 1..Len(RowsOf(f)) |-> RowsOf(f)[n].URL] = find_urls(TextOf(f))

\* C1 as amended: when the document loop has ended a document whose text is
\* empty has contributed exactly one placeholder record, and a document whose
\* text is not empty has contributed exactly one record per discovered
\* endpoint, which is no record at all when find_urls returns no endpoint.
C1_RecordsPerDocument ==
    pc = "done" =>
        \A f \in DOMAIN docs :
            /\ AllSpace(TextOf(f)) =>
                   (Len(RowsOf(f)) = 1 /\ IsPlaceholder(RowsOf(f)[1]))
            /\ ~AllSpace(TextOf(f)) =>
                   [n \in 1..Len(RowsOf(f)) |-> RowsOf(f)[n].URL] = find_urls(TextOf(f))

C1_Witness ==
    /\ pc = "done"
    /\ Cardinality(DOMAIN docs) = 2
    /\ \E f \in DOMAIN docs : AllSpace(TextOf(f)) /\ TextOf(f) # <<>> /\ Len(RowsOf(f)) = 1
    /\ \E f \in DOMAIN docs : Len(RowsOf(f)) = 2

\* the place of a file name in the order of the names' code points
RefRank(name) ==
    IF name = FileNames[2] THEN 1
    ELSE IF name = FileNames[1] THEN 2
    ELSE IF name = FileNames[3] THEN 3
    ELSE 4

\* C2: at every point of main the Index values of rows are 1, 2, ... in
\* the order of appending, the next one is idx, the rows follow the order of the
\* file names, and the rows of one document follow the order of discovery.
C2_IndexSequence ==
    /\ idx = Len(rows) + 1
    /\ \A n \in 1..Len(rows) : rows[n].Index = n
    /\ \A a, b \in 1..Len(rows) :
           a < b => RefRank(rows[a].FileName) <= RefRank(rows[b].FileName)
    /\ \A f \in DOMAIN docs :
           \/ Len(RowsOf(f)) = 1 /\ IsPlaceholder(RowsOf(f)[1])
           \/ [n \in 1..Len(RowsOf(f)) |-> RowsOf(f)[n].URL]
                  = SubSeq(find_urls(TextOf(f)), 1, Len(RowsOf(f)))

C2_Witness ==
    /\ pc = "done"
    /\ Len(rows) = 4
    /\ rows[2].FileName = FileNames[2]
    /\ rows[3].FileName = FileNames[1]
    /\ rows[4].Index = 4

\* ReqBlock as json.dumps(..., ensure_ascii=False, indent=2) writes it
CanonReq ==
    <<"{", "\n", " ", " ", "\"", "c", "u", "s", "t", "I", "d", "\"", ":", " ",
    "\"", "1", "2", "3", "\"", ",", "\n", " ", " ", "\"", "d", "a", "t", "a",
    "\"", ":", " ", "{", "}", ",", "\n", " ", " ", "\"", "p", "a", "d", "\"",
    ":", " ", "\"", "x", "x", "x", "x", "x", "x", "x", "x", "x", "x", "x",
    "x", "x", "x", "x", "x", "x", "x", "\"", "\n", "}">>

\* RespBlock as json.dumps(..., ensure_ascii=False, indent=2) writes it
CanonResp ==
    <<"{", "\n", " ", " ", "\"", "r", "s", "p", "C", "o", "d", "e", "\"", ":",
    " ", "\"", "0", "\"", ",", "\n", " ", " ", "\"", "e", "r", "r", "o", "r",
    "\"", ":", " ", "n", "u", "l", "l", ",", "\n", " ", " ", "\"", "p", "a",
    "d", "\"", ":", " ", "\"", "x", "x", "x", "x", "x", "x", "x", "x", "x",
    "x", "x", "x", "x", "x", "x", "x", "x", "x", "\"", "\n", "}">>

\* ShortReq, in the same way
CanonShortReq ==
    <<"{", "\n", " ", " ", "\"", "c", "u", "s", "t", "I", "d", "\"", ":", " ",
    "\"", "1", "2", "3", "\"", ",", "\n", " ", " ", "\"", "d", "a", "t", "a",
    "\"", ":", " ", "{", "}", "\n", "}">>

\* ShortResp, in the same way
CanonShortResp ==
    <<"{", "\n", " ", " ", "\"", "r", "s", "p", "C", "o", "d", "e", "\"", ":",
    " ", "\"", "0", "\"", ",", "\n", " ", " ", "\"", "e", "r", "r", "o", "r",
    "\"", ":", " ", "n", "u", "l", "l", "\n", "}">>

Canon(b) ==
    IF b = ReqBlock THEN CanonReq
    ELSE IF b = RespBlock THEN CanonResp
    ELSE IF b = ShortReq THEN CanonShortReq
    ELSE CanonShortResp

\* the record of an end-to-end document is the one record of /v1/pay with the
\* two objects, normalized
EndToEndRecord(f, c) ==
    /\ Len(RowsOf(f)) = 1
    /\ RowsOf(f)[1].URL = PayUrl
    /\ RowsOf(f)[1].Input = Canon(c.req)
    /\ RowsOf(f)[1].Output = Canon(c.resp)

\* C5 as stated: whatever the lengths of the two objects, the document
\* POST /v1/pay <request object> ... <response object> yields one record with
\* URL /v1/pay, the normalized request object as Input and the normalized
\* response object as Output.
C5_EndToEndAnyLength ==
    pc = "done" =>
        \A f \in DOMAIN docs : \A c \in EndToEndCases :
            docs[f] = <<EndToEnd(c.req, c.resp)>> => EndToEndRecord(f, c)

\* C5 as amended: the same, when both objects are longer than 50 characters
\* and the request object holds no response keyword.
C5_EndToEndLongObjects ==
    pc = "done" =>
        \A f \in DOMAIN docs : \A c \in EndToEndCases :
            (/\ docs[f] = <<EndToEnd(c.req, c.resp)>>
             /\ Len(c.req) > MinLen
             /\ Len(c.resp) > MinLen) => EndToEndRecord(f, c)

C5_Witness ==
    /\ pc = "done"
    /\ DOMAIN docs = {FileNames[1]}
    /\ docs[FileNames[1]] = <<EndToEnd(ReqBlock, RespBlock)>>
    /\ Len(rows) = 1
    /\ rows[1].Input = CanonReq
    /\ rows[1].Output = CanonResp

\* a declaration POST <white space> <path> opens at offset n of t, and its
\* path spans [ps, pe)
DeclaredAt(t, n, ps, pe) ==
    /\ OccursAt(t, POST, n)
    /\ ps > n + 4
    /\ \A q \in (n + 4)..(ps - 1) : IsSpace(t[q + 1])
    /\ pe > ps + 1
    /\ pe <= Len(t)
    /\ t[ps + 1] = "/"
    /\ \A q \in ps..(pe - 1) : ~IsSpace(t[q + 1])
    /\ pe = Len(t) \/ IsSpace(t[pe + 1])

\* every declaration of t: where it opens and the span [ps, pe) of its path
Declarations(t) ==
    LET posts == {n \in 0..(Len(t) - 1) : OccursAt(t, POST, n)}
        slashes == {n \in 0..(Len(t) - 1) : t[n + 1] = "/"}
        ends == {n \in 1..Len(t) : n = Len(t) \/ IsSpace(t[n + 1])}
    IN  {w \in posts \X slashes \X ends : DeclaredAt(t, w[1], w[2], w[3])}

\* the offsets at which the path u is declared in t
DeclaredOffsets(t, u) ==
    {w[2] : w \in {d \in Declarations(t) : Slice(t, d[2], d[3]) = u}}

DeclaredPaths(t) == {Slice(t, w[2], w[3]) : w \in Declarations(t)}

UrlsKnown == pc \in {"urls", "call_scan", "scan", "pick", "norm", "append"}

\* C6: find_urls returns every declared path once and nothing else, in the
\* order of the paths' first declarations; no declaration gives the empty list.
C6_DedupFirstOccurrence ==
    UrlsKnown =>
        /\ {urls[n] : n \in 1..Len(urls)} = DeclaredPaths(text)
        /\ \A a, b \in 1..Len(urls) :
               a < b => /\ urls[a] # urls[b]
                        /\ Min(DeclaredOffsets(text, urls[a]))
                               < Min(DeclaredOffsets(text, urls[b]))

C6_Witness ==
    /\ pc = "urls"
    /\ DOMAIN docs = {FileNames[1]}
    /\ docs[FileNames[1]] = <<DeclA \o DeclB \o DeclA>>
    /\ urls = <<<<"/", "a">>, <<"/", "b">>>>

Anchored == pc \in {"call_scan", "scan", "pick", "norm", "append"}

\* C10: the anchor search for a discovered path always finds it, at the first
\* place of the text where the path's characters stand, which is the place of
\* the path in its first declaration or an earlier one.
C10_AnchorFound ==
    Anchored =>
        /\ m # -1
        /\ OccursAt(text, urls[k], m)
        /\ \A n \in 0..(m - 1) : ~OccursAt(text, urls[k], n)
        /\ m <= Min(DeclaredOffsets(text, urls[k]))
        /\ (\E n \in 0..(Min(DeclaredOffsets(text, urls[k])) - 1) :
                OccursAt(text, urls[k], n))
               => m < Min(DeclaredOffsets(text, urls[k]))

C10_Witness ==
    /\ Anchored
    /\ DOMAIN docs = {FileNames[1]}
    /\ docs[FileNames[1]] = <<DeclAB \o DeclA>>
    /\ urls[k] = <<"/", "a">>
    /\ m = 5
    /\ Min(DeclaredOffsets(text, urls[k])) = 14

====
